---- MODULE Spec2Model ----
(***************************************************************************)
(* Model of the RDF-ontology -> WikiBase converter                         *)
(* (src/rdfont2wb.py, src/wikibase.py).                                    *)
(*                                                                         *)
(* Python strings are sequences of one-character strings.  URIs of the     *)
(* well-known namespaces are abbreviated (rdf#, rdfs#, owl#, skos#, dct/,  *)
(* dc/, sdo/ for http://schema.org/, obo/, spdx#, epo/, okh#): only their  *)
(* equality and their final path/fragment segment are used by the code.    *)
(***************************************************************************)
EXTENDS Integers, Sequences, FiniteSets, TLC

(***************************************************************************)
(* RDF terms (rdflib.URIRef, rdflib.BNode, rdflib.Literal).  lang = ""     *)
(* stands for a literal without language tag (lb.language is None).        *)
(***************************************************************************)
URIRef(s) ==
    [t |-> "uri", s |-> s, lang |-> ""]

BNode(s) ==
    [t |-> "bnode", s |-> s, lang |-> ""]

Literal(s, lang) ==
    [t |-> "lit", s |-> s, lang |-> lang]

Triple(s, p, o) ==
    [s |-> s, p |-> p, o |-> o]

RDF_type ==
    URIRef(<<"r", "d", "f", "#", "t", "y", "p", "e">>)

RDFS_label ==
    URIRef(<<"r", "d", "f", "s", "#", "l", "a", "b", "e", "l">>)

RDFS_comment ==
    URIRef(<<"r", "d", "f", "s", "#", "c", "o", "m", "m", "e", "n", "t">>)

RDFS_range ==
    URIRef(<<"r", "d", "f", "s", "#", "r", "a", "n", "g", "e">>)

RDFS_domain ==
    URIRef(<<"r", "d", "f", "s", "#", "d", "o", "m", "a", "i", "n">>)

RDFS_subClassOf ==
    URIRef(<<"r", "d", "f", "s", "#", "s", "u", "b", "C", "l", "a", "s", "s", "O", "f">>)

RDFS_subPropertyOf ==
    URIRef(<<"r", "d", "f", "s", "#", "s", "u", "b", "P", "r", "o", "p", "e", "r", "t", "y", "O", "f">>)

SKOS_prefLabel ==
    URIRef(<<"s", "k", "o", "s", "#", "p", "r", "e", "f", "L", "a", "b", "e", "l">>)

SKOS_definition ==
    URIRef(<<"s", "k", "o", "s", "#", "d", "e", "f", "i", "n", "i", "t", "i", "o", "n">>)

DCTERMS_title ==
    URIRef(<<"d", "c", "t", "/", "t", "i", "t", "l", "e">>)

DCTERMS_description ==
    URIRef(<<"d", "c", "t", "/", "d", "e", "s", "c", "r", "i", "p", "t", "i", "o", "n">>)

DC_title ==
    URIRef(<<"d", "c", "/", "t", "i", "t", "l", "e">>)

DC_description ==
    URIRef(<<"d", "c", "/", "d", "e", "s", "c", "r", "i", "p", "t", "i", "o", "n">>)

OWL_Class ==
    URIRef(<<"o", "w", "l", "#", "C", "l", "a", "s", "s">>)

OWL_ObjectProperty ==
    URIRef(<<"o", "w", "l", "#", "O", "b", "j", "e", "c", "t", "P", "r", "o", "p", "e", "r", "t", "y">>)

OWL_DatatypeProperty ==
    URIRef(<<"o", "w", "l", "#", "D", "a", "t", "a", "t", "y", "p", "e", "P", "r", "o", "p", "e", "r", "t", "y">>)

OWL_Ontology ==
    URIRef(<<"o", "w", "l", "#", "O", "n", "t", "o", "l", "o", "g", "y">>)

OWL_NamedIndividual ==
    URIRef(<<"o", "w", "l", "#", "N", "a", "m", "e", "d", "I", "n", "d", "i", "v", "i", "d", "u", "a", "l">>)

OWL_cardinality ==
    URIRef(<<"o", "w", "l", "#", "c", "a", "r", "d", "i", "n", "a", "l", "i", "t", "y">>)

OWL_maxCardinality ==
    URIRef(<<"o", "w", "l", "#", "m", "a", "x", "C", "a", "r", "d", "i", "n", "a", "l", "i", "t", "y">>)

OWL_minCardinality ==
    URIRef(<<"o", "w", "l", "#", "m", "i", "n", "C", "a", "r", "d", "i", "n", "a", "l", "i", "t", "y">>)

SCHEMA_inLanguage ==
    URIRef(<<"s", "d", "o", "/", "i", "n", "L", "a", "n", "g", "u", "a", "g", "e">>)

SCHEMA_version ==
    URIRef(<<"s", "d", "o", "/", "v", "e", "r", "s", "i", "o", "n">>)

SCHEMA_isBasedOn ==
    URIRef(<<"s", "d", "o", "/", "i", "s", "B", "a", "s", "e", "d", "O", "n">>)

SCHEMA_copyrightHolder ==
    URIRef(<<"s", "d", "o", "/", "c", "o", "p", "y", "r", "i", "g", "h", "t", "H", "o", "l", "d", "e", "r">>)

SCHEMA_licenseDeclared ==
    URIRef(<<"s", "d", "o", "/", "l", "i", "c", "e", "n", "s", "e", "D", "e", "c", "l", "a", "r", "e", "d">>)

SCHEMA_creativeWorkStatus ==
    URIRef(<<"s", "d", "o", "/", "c", "r", "e", "a", "t", "i", "v", "e", "W", "o", "r", "k", "S", "t", "a", "t", "u", "s">>)

SCHEMA_image ==
    URIRef(<<"s", "d", "o", "/", "i", "m", "a", "g", "e">>)

SCHEMA_hasPart ==
    URIRef(<<"s", "d", "o", "/", "h", "a", "s", "P", "a", "r", "t">>)

SCHEMA_codeRepository ==
    URIRef(<<"s", "d", "o", "/", "c", "o", "d", "e", "R", "e", "p", "o", "s", "i", "t", "o", "r", "y">>)

SCHEMA_value ==
    URIRef(<<"s", "d", "o", "/", "v", "a", "l", "u", "e">>)

OBO_BFO_0000016 ==
    URIRef(<<"o", "b", "o", "/", "B", "F", "O", "_", "0", "0", "0", "0", "0", "1", "6">>)

SCHEMA_amount ==
    URIRef(<<"s", "d", "o", "/", "a", "m", "o", "u", "n", "t">>)

SCHEMA_URL ==
    URIRef(<<"s", "d", "o", "/", "U", "R", "L">>)

SPDX_licenseDeclared ==
    URIRef(<<"s", "p", "d", "x", "#", "l", "i", "c", "e", "n", "s", "e", "D", "e", "c", "l", "a", "r", "e", "d">>)

EPO_classificationIPCInventive ==
    URIRef(<<"e", "p", "o", "/", "c", "l", "a", "s", "s", "i", "f", "i", "c", "a", "t", "i", "o", "n", "I", "P", "C", "I", "n", "v", "e", "n", "t", "i", "v", "e">>)

SCHEMA_fileFormat ==
    URIRef(<<"s", "d", "o", "/", "f", "i", "l", "e", "F", "o", "r", "m", "a", "t">>)

OKH_Module ==
    URIRef(<<"o", "k", "h", "#", "M", "o", "d", "u", "l", "e">>)

OKH_Part ==
    URIRef(<<"o", "k", "h", "#", "P", "a", "r", "t">>)

OKH_hasComponent ==
    URIRef(<<"o", "k", "h", "#", "h", "a", "s", "C", "o", "m", "p", "o", "n", "e", "n", "t">>)

OKH_name ==
    URIRef(<<"o", "k", "h", "#", "n", "a", "m", "e">>)

OKH_X ==
    URIRef(<<"o", "k", "h", "#", "X">>)

OKH_Meta ==
    URIRef(<<"o", "k", "h", "#", "M", "e", "t", "a">>)

OKH_Missing ==
    URIRef(<<"o", "k", "h", "#", "M", "i", "s", "s", "i", "n", "g">>)

BASE_URI ==
    <<"o", "k", "h">>

(***************************************************************************)
(* WikiBase identifiers are Python strings "Q<n>" / "P<n>": c is the first *)
(* character and n the integer the rest parses to (n = -1: the rest is no  *)
(* decimal number).  StrNone is the string "None" that rdflib.Literal(None)*)
(* holds; PyNone is the Python value None.                                 *)
(***************************************************************************)
WbId(c, n) ==
    [c |-> c, n |-> n]

StrNone ==
    [c |-> "N", n |-> -1]

PyNone ==
    [c |-> "", n |-> -1]

default_language ==
    "en"

label_sep ==
    <<"\n", "\n">>

description_sep ==
    <<"\n", "\n">>

(* `RDFS.label or SKOS.prefLabel or ...' evaluates to its first operand:   *)
(* a URIRef is a non-empty string, hence truthy.                           *)
PyOr(a, b) ==
    IF a.s # <<>> THEN a ELSE b

get_label_preds ==
    << PyOr(RDFS_label, PyOr(SKOS_prefLabel, PyOr(DCTERMS_title, DC_title))) >>

get_desc_preds ==
    << PyOr(RDFS_comment,
            PyOr(SKOS_definition, PyOr(DCTERMS_description, DC_description))) >>

get_non_claim_preds ==
    get_label_preds \o get_desc_preds
        \o << RDF_type, OWL_cardinality, OWL_maxCardinality, OWL_minCardinality >>

InList(x, lst) ==
    \E k \in 1..Len(lst) : lst[k] = x
SubstTable ==
 
  << [node |-> RDFS_subClassOf, label |-> <<"s", "u", "b", "C", "l", "a", "s", "s", "O", "f">>,
      obj_type |-> "item", item |-> FALSE],
     [node |-> RDFS_subPropertyOf, label |-> <<"s", "u", "b", "P", "r", "o", "p", "e", "r", "t", "y", "O", "f">>,
      obj_type |-> "property", item |-> FALSE],
     [node |-> SCHEMA_inLanguage, label |-> <<"i", "n", "L", "a", "n", "g", "u", "a", "g", "e">>,
      obj_type |-> "string", item |-> FALSE],
     [node |-> SCHEMA_version, label |-> <<"v", "e", "r", "s", "i", "o", "n">>,
      obj_type |-> "string", item |-> FALSE],
     [node |-> SCHEMA_isBasedOn, label |-> <<"i", "s", "B", "a", "s", "e", "d", "O", "n">>,
      obj_type |-> "property", item |-> FALSE],
     [node |-> SCHEMA_copyrightHolder, label |-> <<"c", "o", "p", "y", "r", "i", "g", "h", "t", "H", "o", "l", "d", "e", "r">>,
      obj_type |-> "item", item |-> FALSE],
     [node |-> SCHEMA_licenseDeclared, label |-> <<"l", "i", "c", "e", "n", "s", "e", "D", "e", "c", "l", "a", "r", "e", "d">>,
      obj_type |-> "item", item |-> FALSE],
     [node |-> SCHEMA_creativeWorkStatus, label |-> <<"c", "r", "e", "a", "t", "i", "v", "e", "W", "o", "r", "k", "S", "t", "a", "t", "u", "s">>,
      obj_type |-> "string", item |-> FALSE],
     [node |-> SCHEMA_image, label |-> <<"i", "m", "a", "g", "e">>,
      obj_type |-> "url", item |-> FALSE],
     [node |-> SCHEMA_hasPart, label |-> <<"h", "a", "s", "P", "a", "r", "t">>,
      obj_type |-> "item", item |-> FALSE],
     [node |-> SCHEMA_codeRepository, label |-> <<"s", "o", "u", "r", "c", "e", "C", "o", "d", "e", "R", "e", "p", "o", "s", "i", "t", "o", "r", "y">>,
      obj_type |-> "url", item |-> FALSE],
     [node |-> SCHEMA_value, label |-> <<"s", "u", "p", "p", "o", "r", "t", "e", "d", "M", "e", "t", "a", "D", "a", "t", "a">>,
      obj_type |-> "string", item |-> FALSE],
     [node |-> OBO_BFO_0000016, label |-> <<"s", "c", "o", "p", "e", "A", "n", "d", "C", "o", "n", "t", "e", "n", "t">>,
      obj_type |-> "string", item |-> FALSE],
     [node |-> SCHEMA_amount, label |-> <<"q", "u", "a", "n", "t", "i", "t", "y">>,
      obj_type |-> "string", item |-> FALSE],
     [node |-> SCHEMA_URL, label |-> <<"U", "R", "L">>,
      obj_type |-> "None", item |-> TRUE],
     [node |-> SPDX_licenseDeclared, label |-> <<"l", "i", "c", "e", "n", "s", "e", "D", "e", "c", "l", "a", "r", "e", "d">>,
      obj_type |-> "string", item |-> FALSE],
     [node |-> EPO_classificationIPCInventive, label |-> <<"c", "l", "a", "s", "s", "i", "f", "i", "c", "a", "t", "i", "o", "n", "I", "P", "C", "I", "n", "v", "e", "n", "t", "i", "v", "e">>,
      obj_type |-> "string", item |-> FALSE],
     [node |-> SCHEMA_fileFormat, label |-> <<"f", "i", "l", "e", "F", "o", "r", "m", "a", "t">>,
      obj_type |-> "string", item |-> FALSE] >>

(***************************************************************************)
(* String helpers.                                                         *)
(***************************************************************************)
Max(S) ==
    CHOOSE x \in S : \A y \in S : y <= x

StartsWith(s, p) ==
    Len(s) >= Len(p) /\ SubSeq(s, 1, Len(p)) = p

UpperChars ==
    {"A", "B", "C", "D", "E", "F", "G", "H", "I", "J", "K", "L", "M",
     "N", "O", "P", "Q", "R", "S", "T", "U", "V", "W", "X", "Y", "Z"}

isupper(ch) ==
    ch \in UpperChars

(* term.n3(): a URI in angle brackets, a blank node as _:label, a literal  *)
(* in double quotes followed by its language tag.                          *)
n3(term) ==
    CASE term.t = "uri" -> <<"<">> \o term.s \o <<">">>
      [] term.t = "bnode" -> <<"_", ":">> \o term.s
      [] OTHER -> <<"\"">> \o term.s \o <<"\"">>
                    \o (IF term.lang = "" THEN <<>> ELSE <<"@", term.lang>>)

UrlSchemes ==
    { <<"h", "t", "t", "p", ":", "/", "/">>,
      <<"h", "t", "t", "p", "s", ":", "/", "/">>,
      <<"f", "t", "p", ":", "/", "/">> }

(* validators.url(value): the value must start with a scheme, followed by  *)
(* a non-empty host/path free of blanks, quotes and angle brackets.        *)
validators_url(s) ==
    \E sch \in UrlSchemes :
        /\ StartsWith(s, sch)
        /\ Len(s) > Len(sch)
        /\ \A k \in (Len(sch) + 1)..Len(s) : s[k] \notin {" ", "\"", "<", ">"}

(* re.sub(r".*[#/]", "", rdf_name): the greedy match removes everything up *)
(* to and including the last '#' or '/'.                                   *)
re_sub_to_last_sep(s) ==
    LET seps == {k \in 1..Len(s) : s[k] \in {"#", "/"}}
    IN  IF seps = {} THEN s ELSE SubSeq(s, Max(seps) + 1, Len(s))

(***************************************************************************)
(* Input ontologies.  An rdflib graph is a set of triples that is iterated *)
(* in some fixed order: each ontology is a duplicate-free sequence.        *)
(***************************************************************************)
TxtModule ==
    <<"M", "o", "d", "u", "l", "e">>

TxtEinModul ==
    <<"e", "i", "n", " ", "M", "o", "d", "u", "l">>

TxtNotAUrl ==
    <<"n", "o", "t", " ", "a", " ", "u", "r", "l">>

TxtUrl ==
    <<"h", "t", "t", "p", ":", "/", "/", "e", "x", "a", "m", "p", "l", "e",
      ".", "o", "r", "g">>

TxtVersion ==
    <<"1", ".", "0">>

OntBasic ==
    << Triple(OKH_Module, RDF_type, OWL_Class),
       Triple(OKH_Module, RDFS_label, Literal(TxtModule, "")),
       Triple(OKH_Part, RDF_type, OWL_Class),
       Triple(OKH_Part, RDFS_subClassOf, OKH_Module),
       Triple(OKH_hasComponent, RDF_type, OWL_ObjectProperty) >>

OntSkip ==
    << Triple(URIRef(BASE_URI), RDF_type, OWL_Ontology),
       Triple(URIRef(BASE_URI), SCHEMA_version, Literal(TxtVersion, "")),
       Triple(BNode(<<"b", "1">>), RDF_type, OWL_Class),
       Triple(OKH_Meta, RDF_type, OWL_Ontology),
       Triple(OKH_Meta, SCHEMA_version, Literal(TxtVersion, "")) >>

OntDescOnly ==
    << Triple(OKH_Module, RDF_type, OWL_Class),
       Triple(OKH_Module, RDFS_comment, Literal(TxtEinModul, "de")) >>

OntLiterals ==
    << Triple(OKH_Module, RDF_type, OWL_Class),
       Triple(OKH_Module, SCHEMA_version, Literal(TxtUrl, "")),
       Triple(OKH_Module, SCHEMA_version, Literal(TxtNotAUrl, "")) >>

OntUnresolvedPred ==
    << Triple(OKH_Module, RDF_type, OWL_Class),
       Triple(OKH_Module, OKH_name, Literal(TxtModule, "")),
       Triple(OKH_Part, RDF_type, OWL_Class) >>

OntUnresolvedObj ==
    << Triple(OKH_Part, RDF_type, OWL_Class),
       Triple(OKH_Part, RDFS_subClassOf, OKH_Missing),
       Triple(OKH_Module, RDF_type, OWL_Class) >>

OntAltLabel ==
    << Triple(OKH_Module, RDF_type, OWL_Class),
       Triple(OKH_Module, OWL_cardinality, Literal(<<"1">>, "")),
       Triple(OKH_Module, SKOS_prefLabel, Literal(TxtModule, "en")),
       Triple(OKH_Part, RDF_type, OWL_Class) >>

(* len(desc) > 250 and desc[:247] in create_wb_thing.                      *)
DescMaxLen ==
    250

DescKeepLen ==
    247

(* Several label and description literals of one node, tagged and not.     *)
TxtFoo ==
    <<"F", "o", "o">>

TxtBar ==
    <<"B", "a", "r">>

TxtBaz ==
    <<"B", "a", "z">>

TxtQux ==
    <<"Q", "u", "x">>

OntLabels ==
    << Triple(OKH_Module, RDF_type, OWL_Class),
       Triple(OKH_Module, RDFS_label, Literal(TxtFoo, "en")),
       Triple(OKH_Module, RDFS_label, Literal(TxtBar, "en")),
       Triple(OKH_Module, RDFS_label, Literal(TxtBaz, "fr")),
       Triple(OKH_Module, RDFS_label, Literal(TxtQux, "")),
       Triple(OKH_Module, RDFS_comment, Literal(TxtEinModul, "fr")),
       Triple(OKH_Module, RDFS_comment, Literal(TxtNotAUrl, "")),
       Triple(OKH_Module, RDFS_comment, Literal(TxtVersion, "en")) >>

(* Description literals of n characters around the display length.         *)
DigitChars ==
    <<"0", "1", "2", "3", "4", "5", "6", "7", "8", "9">>

LongText(n) ==
    [k \in 1..n |-> DigitChars[(k % 10) + 1]]

OntLongDesc ==
    << Triple(OKH_Module, RDF_type, OWL_Class),
       Triple(OKH_Module, RDFS_label, Literal(TxtModule, "")),
       Triple(OKH_Module, RDFS_comment, Literal(LongText(DescMaxLen + 10), "")),
       Triple(OKH_Part, RDF_type, OWL_Class),
       Triple(OKH_Part, RDFS_label, Literal(TxtFoo, "")),
       Triple(OKH_Part, RDFS_comment, Literal(LongText(DescMaxLen), "")),
       Triple(OKH_X, RDF_type, OWL_Class),
       Triple(OKH_X, RDFS_label, Literal(TxtBar, "")),
       Triple(OKH_X, RDFS_comment, Literal(LongText(DescMaxLen + 1), "")) >>

(* Node-reference objects: declared as class, declared as property, and    *)
(* bootstrap nodes the ontology does not declare; a bootstrap node that is *)
(* a subject of the ontology as well.                                      *)
OntRefs ==
    << Triple(OKH_Module, RDF_type, OWL_Class),
       Triple(OKH_Module, SCHEMA_isBasedOn, SCHEMA_URL),
       Triple(OKH_hasComponent, RDF_type, OWL_ObjectProperty),
       Triple(OKH_hasComponent, RDFS_subPropertyOf, SCHEMA_hasPart),
       Triple(SCHEMA_version, RDF_type, OWL_DatatypeProperty),
       Triple(OKH_Part, RDF_type, OWL_Class),
       Triple(OKH_Part, RDFS_subClassOf, OKH_Module),
       Triple(OKH_Part, SCHEMA_isBasedOn, OKH_hasComponent) >>

(* Objects the ontology does not declare: a URI without '#' and '/', and a *)
(* URI that ends with '#'.                                                 *)
URN_Thing ==
    URIRef(<<"U", "R", "N", ":", "T", "h", "i", "n", "g">>)

OKH_ns ==
    URIRef(<<"o", "k", "h", "#">>)

OntOddRefs ==
    << Triple(OKH_Module, RDF_type, OWL_Class),
       Triple(OKH_Module, SCHEMA_isBasedOn, URN_Thing),
       Triple(OKH_Module, SCHEMA_isBasedOn, OKH_ns) >>

(* Label and description literals under the first and under an alternate   *)
(* predicate of the lists.                                                 *)
OntMultiPred ==
    << Triple(OKH_Module, RDF_type, OWL_Class),
       Triple(OKH_Module, RDFS_label, Literal(TxtFoo, "en")),
       Triple(OKH_Module, SKOS_prefLabel, Literal(TxtBar, "en")),
       Triple(OKH_Module, RDFS_comment, Literal(TxtBaz, "en")),
       Triple(OKH_Module, SKOS_definition, Literal(TxtQux, "en")) >>

(* Two properties that yield the same label.                               *)
OntSameLabel ==
    << Triple(OKH_hasComponent, RDF_type, OWL_ObjectProperty),
       Triple(OKH_hasComponent, RDFS_label, Literal(TxtFoo, "en")),
       Triple(OKH_name, RDF_type, OWL_DatatypeProperty),
       Triple(OKH_name, RDFS_label, Literal(TxtFoo, "en")) >>

(* A bootstrap node that the ontology declares as well.                    *)
OntSubst ==
    << Triple(SCHEMA_version, RDF_type, OWL_DatatypeProperty),
       Triple(OKH_Module, RDF_type, OWL_Class),
       Triple(OKH_Module, SCHEMA_version, Literal(TxtVersion, "")) >>

(* One node OKH_X declared with each subset of TypeList, then labelled.    *)
TypeList ==
    << OWL_Class, OWL_ObjectProperty, OWL_DatatypeProperty, OWL_Ontology,
       OWL_NamedIndividual >>

TypeSetOf(k) ==
    {b \in 1..Len(TypeList) : (k \div (2 ^ (b - 1))) % 2 = 1}

OntTyped(k) ==
    LET Has(b) == b \in TypeSetOf(k)
        bs == SelectSeq([b \in 1..Len(TypeList) |-> b], Has)
    IN  [n \in 1..Len(bs) |-> Triple(OKH_X, RDF_type, TypeList[bs[n]])]
            \o << Triple(OKH_X, RDFS_label, Literal(<<"X">>, "")) >>

NumTypeSets ==
    2 ^ Len(TypeList)

Ontologies ==
    << OntBasic, OntSkip, OntDescOnly, OntLiterals, OntUnresolvedPred,
       OntUnresolvedObj, OntAltLabel >>
        \o [k \in 1..NumTypeSets |-> OntTyped(k - 1)]
        \o << OntLabels, OntLongDesc, OntRefs, OntOddRefs, OntSubst,
              OntMultiPred, OntSameLabel >>

(* Mutant of ExcludedPropertyNum: another identifier is excluded.         *)
ExcludedPropertyNum_other ==
    1647 + 1

(* The identifier compared with in create_claim: 'P1647'.                  *)
ExcludedPropertyNum ==
    1647

(***************************************************************************)
(* Bounds of the model.                                                    *)
(***************************************************************************)
MaxRuns ==
    2

MaxFaults ==
    1

MaxCollisions ==
    2

VARIABLES
    g,          \* index of the loaded ontology (self.graph)
    link_file,  \* the link-store file: [exists, recs]
    remote,     \* the WikiBase instance: last identifier handed out per kind
    ont2wb,     \* self.ont2wb: set of [node, id] link records
    loaded,     \* history: the link records this run started with
    pc,         \* position in convert(): the step or loop it is in
    i,          \* index of the current outer loop iteration
    j,          \* index of the current triple in the claim pass (0: loop head)
    wb_id,      \* the subject's identifier in the claim pass
    call,       \* the pending create_wb_thing_raw invocation
    err,        \* the exception that ended the run ("": none)
    events,     \* history: requests, replies and the save of this run
    faults,     \* number of create_wb_thing_raw calls that got an error reply
    run,        \* number of the current run of the tool
    hist        \* history: one summary per finished run

vars ==
    << g, link_file, remote, ont2wb, loaded, pc, i, j, wb_id, call, err, events,
       faults, run, hist >>

graph ==
    Ontologies[g]

(* list(self.graph.objects(subj, pred)), in iteration order.               *)
graph_objects(subj, pred) ==
    LET Match(tr) == tr.s = subj /\ tr.p = pred
        sel == SelectSeq(graph, Match)
    IN  [k \in 1..Len(sel) |-> sel[k].o]

(* list(self.graph.triples((subj, None, None))), in iteration order.       *)
graph_triples(subj) ==
    LET Match(tr) == tr.s = subj
    IN  SelectSeq(graph, Match)

TypesOf(node) ==
    {graph[k].o : k \in {n \in 1..Len(graph) :
                            graph[n].s = node /\ graph[n].p = RDF_type}}

(***************************************************************************)
(* Identifier Link Store (self.ont2wb, an rdflib graph of                  *)
(* (node, schema:identifier, Literal(id)) triples).                        *)
(***************************************************************************)
LinkRecord(node, id) ==
    [node |-> node, id |-> id]

(* list(self.ont2wb.objects(ref, SCHEMA.identifier)) as a set.             *)
ont2wb_objects(store, ref) ==
    {r.id : r \in {x \in store : x.node = ref}}

(* Mutant of rdf2wb_id: a missing identifier is never an error.            *)
rdf2wb_id_lenient(store, ref, fail_if_missing) ==
    LET wb_ids == ont2wb_objects(store, ref)
    IN  IF Cardinality(wb_ids) = 1
            THEN [raised |-> FALSE, val |-> CHOOSE x \in wb_ids : TRUE]
            ELSE [raised |-> FALSE, val |-> PyNone]

rdf2wb_id(store, ref, fail_if_missing) ==
    LET wb_ids == ont2wb_objects(store, ref)
    IN  IF Cardinality(wb_ids) = 1
            THEN [raised |-> FALSE, val |-> CHOOSE x \in wb_ids : TRUE]
            ELSE IF fail_if_missing
                    THEN [raised |-> TRUE, val |-> PyNone]
                    ELSE [raised |-> FALSE, val |-> PyNone]

(* self.ont2wb.serialize(file, format='turtle'): each record is written as *)
(* the subject's Turtle term followed by the identifier literal.           *)
serialize(store) ==
    {[subj |-> n3(r.node), obj |-> r.id] : r \in store}

(* Parsing a Turtle term: <...> is a URI; a blank node gets a new label.   *)
ParseTerm(txt) ==
    IF txt # <<>> /\ Head(txt) = "<"
        THEN URIRef(SubSeq(txt, 2, Len(txt) - 1))
        ELSE BNode(<<"N">> \o txt)

(* Mutant of load: the file is not read.                                   *)
load_nothing(recs) ==
    {}

(* self.ont2wb.load(file, format='turtle').                                *)
load(recs) ==
    {LinkRecord(ParseTerm(r.subj), r.obj) : r \in recs}

(***************************************************************************)
(* Request payloads (the `data' of create_wb_thing_raw).                   *)
(***************************************************************************)
NoMap ==
    [l \in {} |-> <<>>]

NoClaim ==
    [property |-> PyNone, datatype |-> "", type |-> "", text |-> <<>>,
     entity_type |-> "", id |-> PyNone, numeric_id |-> -1]

EmptyData ==
    [tag |-> "empty", labels |-> NoMap, descriptions |-> NoMap,
     datatype |-> "", claims |-> NoClaim]

ClaimsData(claim) ==
    [tag |-> "claims", labels |-> NoMap, descriptions |-> NoMap,
     datatype |-> "", claims |-> claim]

(***************************************************************************)
(* Label/description aggregation (create_ont_wb_thing, first two loops).   *)
(***************************************************************************)
RECURSIVE ObjectsOfPreds(_, _)
ObjectsOfPreds(subj, preds) ==
    IF preds = <<>>
        THEN <<>>
        ELSE graph_objects(subj, Head(preds)) \o ObjectsOfPreds(subj, Tail(preds))

RECURSIVE Accumulate(_, _, _)
Accumulate(vals, sep, acc) ==
    IF vals = <<>>
        THEN acc
        ELSE LET lb  == Head(vals)
                 lng == IF lb.lang # "" THEN lb.lang ELSE default_language
                 txt == (IF lng \in DOMAIN acc THEN acc[lng] \o sep ELSE <<>>)
                            \o lb.s
             IN  Accumulate(Tail(vals), sep,
                            [l \in (DOMAIN acc) \cup {lng} |->
                                IF l = lng THEN txt ELSE acc[l]])

AggregateLabels(subj) ==
    Accumulate(ObjectsOfPreds(subj, get_label_preds), label_sep, NoMap)

AggregateDescriptions(subj) ==
    Accumulate(ObjectsOfPreds(subj, get_desc_preds), description_sep, NoMap)

(***************************************************************************)
(* WBSession.create_wb_thing: builds the payload handed to                 *)
(* create_wb_thing_raw.  labels[desc_lang] is read for every description   *)
(* language: a language without label raises KeyError.                     *)
(***************************************************************************)
(* Mutant of TruncateDescription: cut at the display length, no ellipsis. *)
TruncateDescription_cut(desc) ==
    IF Len(desc) > DescMaxLen THEN SubSeq(desc, 1, DescMaxLen) ELSE desc

TruncateDescription(desc) ==
    IF Len(desc) > DescMaxLen
        THEN SubSeq(desc, 1, DescKeepLen) \o <<".", ".", ".">>
        ELSE desc

create_wb_thing_raises(labels, descriptions) ==
    \E desc_lang \in DOMAIN descriptions : desc_lang \notin DOMAIN labels

create_wb_thing_data(item, labels, descriptions, property_type) ==
    [tag |-> "entity",
     labels |-> [l \in DOMAIN labels |->
                    [language |-> l, value |-> labels[l]]],
     descriptions |-> [l \in DOMAIN descriptions |->
                    [language |-> l,
                     value |-> TruncateDescription(descriptions[l])]],
     datatype |-> IF item THEN "" ELSE property_type,
     claims |-> NoClaim]

(***************************************************************************)
(* create_ont_wb_thing: classification of a subject by its declared types. *)
(* "item" / "property": an entity is created; "none": return None          *)
(* (owl:Ontology); "exit": exit(1) on an unknown type set.                 *)
(***************************************************************************)
ClassifySubject(subj) ==
    LET types == TypesOf(subj)
    IN  IF OWL_Class \in types
            THEN "item"
            ELSE IF OWL_ObjectProperty \in types \/ OWL_DatatypeProperty \in types
                    THEN "property"
                    ELSE IF OWL_Ontology \in types THEN "none" ELSE "exit"

skip_subj(subj) ==
    subj.t = "bnode" \/ subj.s = BASE_URI

(***************************************************************************)
(* create_claim up to the call of add_wb_thing_claims.  out is "return"    *)
(* (no claim), the name of the exception raised, or "call" with the claim. *)
(***************************************************************************)
ValueTypeOf(obj) ==
    IF obj.t = "lit"
        THEN IF validators_url(n3(obj)) THEN "url" ELSE "string"
        ELSE LET types == TypesOf(obj)
                 rdf_name == re_sub_to_last_sep(n3(obj))
             IN  IF OWL_Class \in types
                    THEN "item"
                    ELSE IF OWL_ObjectProperty \in types
                                \/ OWL_DatatypeProperty \in types
                        THEN "property"
                        ELSE IF rdf_name = <<>>
                            THEN "IndexError"
                            ELSE IF isupper(rdf_name[1]) THEN "item" ELSE "property"

ClaimResult(out, why, claim) ==
    [out |-> out, why |-> why, claim |-> claim]

(* Mutant of create_claim: the reference embeds the predicate's identifier. *)
create_claim_pred_id(store, pred, obj) ==
    IF InList(pred, get_non_claim_preds)
        THEN ClaimResult("return", "non-claim", NoClaim)
        ELSE
    LET pred_wb_id == rdf2wb_id(store, pred, TRUE)
        value_type == ValueTypeOf(obj)
        obj_id     == rdf2wb_id(store, obj, TRUE)
    IN  IF pred_wb_id.raised
            THEN ClaimResult("RuntimeError", "predicate", NoClaim)
        ELSE IF pred_wb_id.val = WbId("P", ExcludedPropertyNum)
            THEN ClaimResult("return", "excluded", NoClaim)
        ELSE IF value_type = "IndexError"
            THEN ClaimResult("IndexError", "rdf_name", NoClaim)
        ELSE IF value_type \in {"string", "url"}
            THEN ClaimResult("call", "",
                    [property |-> pred_wb_id.val, datatype |-> value_type,
                     type |-> value_type, text |-> obj.s,
                     entity_type |-> "", id |-> PyNone, numeric_id |-> -1])
        ELSE IF obj_id.raised
            THEN ClaimResult("RuntimeError", "object", NoClaim)
        ELSE IF obj_id.val.n < 0
            THEN ClaimResult("ValueError", "numeric-id", NoClaim)
        ELSE ClaimResult("call", "",
                    [property |-> pred_wb_id.val,
                     datatype |-> IF value_type = "item" THEN "wikibase-item"
                                                          ELSE "wikibase-property",
                     type |-> "wikibase-entityid", text |-> <<>>,
                     entity_type |-> value_type, id |-> pred_wb_id.val,
                     numeric_id |-> obj_id.val.n])

create_claim(store, pred, obj) ==
    IF InList(pred, get_non_claim_preds)
        THEN ClaimResult("return", "non-claim", NoClaim)
        ELSE
    LET pred_wb_id == rdf2wb_id(store, pred, TRUE)
        value_type == ValueTypeOf(obj)
        obj_id     == rdf2wb_id(store, obj, TRUE)
    IN  IF pred_wb_id.raised
            THEN ClaimResult("RuntimeError", "predicate", NoClaim)
        ELSE IF pred_wb_id.val = WbId("P", ExcludedPropertyNum)
            THEN ClaimResult("return", "excluded", NoClaim)
        ELSE IF value_type = "IndexError"
            THEN ClaimResult("IndexError", "rdf_name", NoClaim)
        ELSE IF value_type \in {"string", "url"}
            THEN ClaimResult("call", "",
                    [property |-> pred_wb_id.val, datatype |-> value_type,
                     type |-> value_type, text |-> obj.s,
                     entity_type |-> "", id |-> PyNone, numeric_id |-> -1])
        ELSE IF obj_id.raised
            THEN ClaimResult("RuntimeError", "object", NoClaim)
        ELSE IF obj_id.val.n < 0
            THEN ClaimResult("ValueError", "numeric-id", NoClaim)
        ELSE ClaimResult("call", "",
                    [property |-> pred_wb_id.val,
                     datatype |-> IF value_type = "item" THEN "wikibase-item"
                                                          ELSE "wikibase-property",
                     type |-> "wikibase-entityid", text |-> <<>>,
                     entity_type |-> value_type, id |-> obj_id.val,
                     numeric_id |-> obj_id.val.n])

(***************************************************************************)
(* History of one run: the requests sent to the WikiBase API (call_api in  *)
(* clear_thing and create_wb_thing_raw), the replies, and the save.  The   *)
(* fields by and node of a request name the caller and the node it works   *)
(* for; they are not part of the request.                                  *)
(***************************************************************************)
NoNode ==
    URIRef(<<>>)

Event(ev, new, id, clear, data, by, node, kind) ==
    [ev |-> ev, new |-> new, id |-> id, clear |-> clear, data |-> data,
     by |-> by, node |-> node, kind |-> kind]

StartEvent(exists) ==
    Event("start", "", PyNone, FALSE, EmptyData, "", NoNode,
          IF exists THEN "file" ELSE "no-file")

SaveEvent ==
    Event("save", "", PyNone, FALSE, EmptyData, "", NoNode, "")

ReplyEvent(kind, id) ==
    Event("reply", "", id, FALSE, EmptyData, "", NoNode, kind)

(* params of create_wb_thing_raw: new=item|property and clear=true without *)
(* wb_id, id=wb_id otherwise.                                              *)
RawRequest(item, data, id, by, node) ==
    Event("request",
          IF id = PyNone THEN (IF item = "True" THEN "item" ELSE "property") ELSE "",
          id, id = PyNone, data, by, node, "")

(* params of clear_thing: id=part_id, clear=true, data='{}'.               *)
ClearRequest(part_id, by, node) ==
    Event("request", "", part_id, TRUE, EmptyData, by, node, "")

IsCreateEntity(e) ==
    e.ev = "request" /\ e.data.tag = "entity"

IsClearEntity(e) ==
    e.ev = "request" /\ e.data.tag = "empty" /\ e.clear

IsClaimCall(e) ==
    e.ev = "request" /\ e.data.tag = "claims"

Idle ==
    [stage |-> "idle", item |-> "None", data |-> EmptyData, wb_id |-> PyNone,
     by |-> "", node |-> NoNode, collisions |-> 0]

RawCall(item, data, id, by, node) ==
    [stage |-> "request", item |-> item, data |-> data, wb_id |-> id,
     by |-> by, node |-> node, collisions |-> 0]

(***************************************************************************)
(* Initial states: an ontology, the link-store file found on disk and the  *)
(* identifiers the WikiBase instance handed out before.                    *)
(***************************************************************************)
SubstId(k) ==
    IF SubstTable[k].item
        THEN WbId("Q", 1)
        ELSE WbId("P", Cardinality({n \in 1..k : ~SubstTable[n].item}))

SubstRecords ==
    {LinkRecord(SubstTable[k].node, SubstId(k)) : k \in 1..Len(SubstTable)}

NumSubstProperties ==
    Cardinality({n \in 1..Len(SubstTable) : ~SubstTable[n].item})

NoFile ==
    [exists |-> FALSE, recs |-> {}]

FileOf(store) ==
    [exists |-> TRUE, recs |-> serialize(store)]

DuplicateRecords ==
    {LinkRecord(OKH_Module, WbId("Q", 2)), LinkRecord(OKH_Module, WbId("Q", 3))}

(* Records of a link-store file for the nodes of OntOddRefs that no run    *)
(* creates.                                                                *)
OddRecords ==
    {LinkRecord(URN_Thing, WbId("Q", 2)), LinkRecord(OKH_ns, WbId("Q", 3))}

(* A link-store file of an instance that gave rdfs:subPropertyOf the       *)
(* identifier P1647.                                                       *)
ExcludedRecords ==
    {r \in SubstRecords : r.node # RDFS_subPropertyOf}
        \cup {LinkRecord(RDFS_subPropertyOf, WbId("P", 1647))}

OntologiesLike(onts) ==
    {k \in 1..Len(Ontologies) : Ontologies[k] \in onts}

InitialCases ==
    {[g |-> k, file |-> NoFile, remote |-> [Q |-> 0, P |-> 0]] :
        k \in OntologiesLike({OntBasic, OntSubst})}
    \cup
    {[g |-> k, file |-> FileOf(SubstRecords),
      remote |-> [Q |-> 1, P |-> NumSubstProperties]] :
        k \in 1..Len(Ontologies)}
    \cup
    {[g |-> k, file |-> FileOf(SubstRecords \cup DuplicateRecords),
      remote |-> [Q |-> 3, P |-> NumSubstProperties]] :
        k \in OntologiesLike({OntBasic, OntLiterals})}
    \cup
    {[g |-> k, file |-> FileOf(SubstRecords \cup OddRecords),
      remote |-> [Q |-> 3, P |-> NumSubstProperties]] :
        k \in OntologiesLike({OntOddRefs})}
    \cup
    {[g |-> k, file |-> FileOf(ExcludedRecords),
      remote |-> [Q |-> 1, P |-> 1647]] :
        k \in OntologiesLike({OntRefs})}

Init ==
    /\ \E c \in InitialCases :
            g = c.g /\ link_file = c.file /\ remote = c.remote
    /\ ont2wb = {}
    /\ loaded = {}
    /\ pc = "start"
    /\ i = 1
    /\ j = 0
    /\ wb_id = PyNone
    /\ call = Idle
    /\ err = ""
    /\ events = <<>>
    /\ faults = 0
    /\ run = 1
    /\ hist = <<>>

(***************************************************************************)
(* convert(), lines 233-236: a new store, loaded from the link-store file  *)
(* when it exists; the bootstrap step runs only when it does not.          *)
(***************************************************************************)
Start ==
    /\ pc = "start"
    /\ err = ""
    /\ ont2wb' = IF link_file.exists THEN load(link_file.recs) ELSE {}
    /\ loaded' = ont2wb'
    /\ pc' = IF link_file.exists THEN "create" ELSE "bootstrap"
    /\ i' = 1
    /\ j' = 0
    /\ events' = << StartEvent(link_file.exists) >>
    /\ UNCHANGED << g, link_file, remote, wb_id, call, err, faults, run, hist >>

(* An exception nothing catches ends the run where it is.                  *)
Abort(exception) ==
    /\ pc' = pc
    /\ err' = exception
    /\ call' = Idle

(* The position after the bootstrap entry i, after the visit i of the      *)
(* creation pass, and after the triple j of the visit i of the claim pass. *)
AfterSubst ==
    /\ pc' = IF i < Len(SubstTable) THEN "bootstrap" ELSE "create"
    /\ i' = IF i < Len(SubstTable) THEN i + 1 ELSE 1
    /\ j' = 0

AfterVisit ==
    /\ pc' = "create"
    /\ i' = i + 1
    /\ j' = 0

AfterTriple ==
    /\ pc' = "claims"
    /\ i' = IF j < Len(graph_triples(graph[i].s)) THEN i ELSE i + 1
    /\ j' = IF j < Len(graph_triples(graph[i].s)) THEN j + 1 ELSE 0

(* Mutant of PropertyTypeOf: the value type is passed on as it is.        *)
PropertyTypeOf_plain(obj_type) ==
    obj_type

(* create_subst_property: 'wikibase-' + obj_type unless string or url.     *)
PropertyTypeOf(obj_type) ==
    CASE obj_type = "item" -> "wikibase-item"
      [] obj_type = "property" -> "wikibase-property"
      [] OTHER -> obj_type

(***************************************************************************)
(* create_subst_property / create_subst_item for the entry i of the        *)
(* bootstrap table (convert(), lines 237-276).                             *)
(***************************************************************************)
create_subst ==
    /\ pc = "bootstrap"
    /\ call.stage = "idle"
    /\ err = ""
    /\ LET e    == SubstTable[i]
           lbs  == [l \in {default_language} |-> e.label]
           dscs == NoMap
           data == create_wb_thing_data(e.item, lbs, dscs,
                        IF e.item THEN "string" ELSE PropertyTypeOf(e.obj_type))
           item == IF e.item THEN "True" ELSE "False"
       IN  IF rdf2wb_id(ont2wb, e.node, FALSE).val # PyNone
              THEN /\ AfterSubst
                   /\ UNCHANGED << call, err, events >>
              ELSE IF create_wb_thing_raises(lbs, dscs)
                  THEN /\ Abort("KeyError")
                       /\ UNCHANGED << i, j, events >>
                  ELSE /\ call' = RawCall(item, data, PyNone, "bootstrap", e.node)
                       /\ events' = Append(events,
                              RawRequest(item, data, PyNone, "bootstrap", e.node))
                       /\ UNCHANGED << pc, i, j, err >>
    /\ UNCHANGED << g, loaded, link_file, remote, ont2wb, wb_id, faults, run,
                    hist >>

(* Mutant of create_pass_visit: the link store is not consulted.           *)
create_pass_visit_always ==
    /\ pc = "create"
    /\ call.stage = "idle"
    /\ err = ""
    /\ i <= Len(graph)
    /\ LET subj == graph[i].s
           lbs  == AggregateLabels(subj)
           dscs == AggregateDescriptions(subj)
           cls  == ClassifySubject(subj)
           item == IF cls = "item" THEN "True" ELSE "False"
           data == create_wb_thing_data(cls = "item", lbs, dscs, "string")
       IN  IF skip_subj(subj)
              THEN /\ AfterVisit
                   /\ UNCHANGED << ont2wb, call, err, events >>
           ELSE IF cls = "exit"
              THEN /\ Abort("SystemExit")
                   /\ UNCHANGED << ont2wb, i, j, events >>
           ELSE IF cls = "none"
              THEN /\ ont2wb' = ont2wb \cup {LinkRecord(subj, StrNone)}
                   /\ AfterVisit
                   /\ UNCHANGED << call, err, events >>
           ELSE IF create_wb_thing_raises(lbs, dscs)
              THEN /\ Abort("KeyError")
                   /\ UNCHANGED << ont2wb, i, j, events >>
              ELSE /\ call' = RawCall(item, data, PyNone, "create", subj)
                   /\ events' = Append(events,
                          RawRequest(item, data, PyNone, "create", subj))
                   /\ UNCHANGED << ont2wb, pc, i, j, err >>
    /\ UNCHANGED << g, loaded, link_file, remote, wb_id, faults, run, hist >>

(***************************************************************************)
(* One iteration of the creation pass (convert(), lines 279-289) with      *)
(* create_ont_wb_thing up to the request it sends.                         *)
(***************************************************************************)
create_pass_visit ==
    /\ pc = "create"
    /\ call.stage = "idle"
    /\ err = ""
    /\ i <= Len(graph)
    /\ LET subj == graph[i].s
           lbs  == AggregateLabels(subj)
           dscs == AggregateDescriptions(subj)
           cls  == ClassifySubject(subj)
           item == IF cls = "item" THEN "True" ELSE "False"
           data == create_wb_thing_data(cls = "item", lbs, dscs, "string")
       IN  IF skip_subj(subj) \/ ont2wb_objects(ont2wb, subj) # {}
              THEN /\ AfterVisit
                   /\ UNCHANGED << ont2wb, call, err, events >>
           ELSE IF cls = "exit"
              THEN /\ Abort("SystemExit")
                   /\ UNCHANGED << ont2wb, i, j, events >>
           ELSE IF cls = "none"
              THEN /\ ont2wb' = ont2wb \cup {LinkRecord(subj, StrNone)}
                   /\ AfterVisit
                   /\ UNCHANGED << call, err, events >>
           ELSE IF create_wb_thing_raises(lbs, dscs)
              THEN /\ Abort("KeyError")
                   /\ UNCHANGED << ont2wb, i, j, events >>
              ELSE /\ call' = RawCall(item, data, PyNone, "create", subj)
                   /\ events' = Append(events,
                          RawRequest(item, data, PyNone, "create", subj))
                   /\ UNCHANGED << ont2wb, pc, i, j, err >>
    /\ UNCHANGED << g, loaded, link_file, remote, wb_id, faults, run, hist >>

(* Mutant of save: the store is written as it was loaded.                  *)
save_stale ==
    /\ pc = "create"
    /\ call.stage = "idle"
    /\ err = ""
    /\ i > Len(graph)
    /\ link_file' = FileOf(loaded)
    /\ events' = Append(events, SaveEvent)
    /\ pc' = "claims"
    /\ i' = 1
    /\ j' = 0
    /\ UNCHANGED << g, loaded, remote, ont2wb, wb_id, call, err, faults, run,
                    hist >>

(* self.ont2wb.serialize(self.link_graph_file) (convert(), line 291).      *)
save ==
    /\ pc = "create"
    /\ call.stage = "idle"
    /\ err = ""
    /\ i > Len(graph)
    /\ link_file' = FileOf(ont2wb)
    /\ events' = Append(events, SaveEvent)
    /\ pc' = "claims"
    /\ i' = 1
    /\ j' = 0
    /\ UNCHANGED << g, loaded, remote, ont2wb, wb_id, call, err, faults, run,
                    hist >>

(***************************************************************************)
(* Head of one iteration of the claim pass (convert(), lines 294-300):     *)
(* wb_ids[0] is whichever record the store lists first.                    *)
(***************************************************************************)
claim_pass_visit ==
    /\ pc = "claims"
    /\ call.stage = "idle"
    /\ err = ""
    /\ i <= Len(graph)
    /\ j = 0
    /\ LET subj   == graph[i].s
           wb_ids == ont2wb_objects(ont2wb, subj)
       IN  IF skip_subj(subj)
              THEN /\ i' = i + 1
                   /\ UNCHANGED << pc, j, wb_id, call, err >>
           ELSE IF wb_ids = {}
              THEN /\ Abort("IndexError")
                   /\ UNCHANGED << i, j, wb_id >>
              ELSE /\ wb_id' \in wb_ids
                   /\ j' = 1
                   /\ UNCHANGED << pc, i, call, err >>
    /\ UNCHANGED << g, loaded, link_file, remote, ont2wb, events, faults, run,
                    hist >>

(***************************************************************************)
(* One triple of the subject in the claim pass (convert(), lines 301-309)  *)
(* with create_claim and add_wb_thing_claims up to the request.            *)
(***************************************************************************)
claim_pass_triple ==
    /\ pc = "claims"
    /\ call.stage = "idle"
    /\ err = ""
    /\ j >= 1
    /\ LET subj == graph[i].s
           tr   == graph_triples(subj)[j]
           res  == create_claim(ont2wb, tr.p, tr.o)
       IN  IF tr.p \in {RDFS_range, RDFS_domain} \/ res.out = "return"
              THEN /\ AfterTriple
                   /\ UNCHANGED << call, err, events >>
           ELSE IF res.out # "call"
              THEN /\ Abort(res.out)
                   /\ UNCHANGED << i, j, events >>
              ELSE /\ call' = RawCall("None", ClaimsData(res.claim), wb_id,
                                      "claims", subj)
                   /\ events' = Append(events,
                          RawRequest("None", ClaimsData(res.claim), wb_id,
                                     "claims", subj))
                   /\ UNCHANGED << pc, i, j, err >>
    /\ UNCHANGED << g, loaded, link_file, remote, ont2wb, wb_id, faults, run,
                    hist >>

(* print('done.') (convert(), line 311).                                   *)
finish ==
    /\ pc = "claims"
    /\ call.stage = "idle"
    /\ err = ""
    /\ i > Len(graph)
    /\ pc' = "done"
    /\ UNCHANGED << g, loaded, link_file, remote, ont2wb, i, j, wb_id, call, err,
                    events, faults, run, hist >>

(***************************************************************************)
(* WBSession.create_wb_thing_raw after its request was sent: the reply of  *)
(* the WikiBase API is the environment's choice.                           *)
(***************************************************************************)
KindLetter(item) ==
    IF item = "True" THEN "Q" ELSE "P"

(* ans['entity']['id']: the entity edited, or a new one of the kind asked. *)
ReturnedId ==
    IF call.wb_id = PyNone
        THEN WbId(KindLetter(call.item), remote[KindLetter(call.item)] + 1)
        ELSE call.wb_id

(* Mutant of Returned: adding a record drops the records that were loaded. *)
Returned_forgetful(id) ==
    IF call.by = "bootstrap"
        THEN /\ ont2wb' = (ont2wb \ loaded) \cup {LinkRecord(call.node, id)}
             /\ AfterSubst
    ELSE IF call.by = "create"
        THEN /\ ont2wb' = (ont2wb \ loaded) \cup {LinkRecord(call.node, id)}
             /\ AfterVisit
        ELSE /\ ont2wb' = ont2wb
             /\ AfterTriple

(* The caller's continuation with the identifier create_wb_thing returned: *)
(* ont2wb.add(...) in the bootstrap step and in the creation pass.         *)
Returned(id) ==
    IF call.by = "bootstrap"
        THEN /\ ont2wb' = ont2wb \cup {LinkRecord(call.node, id)}
             /\ AfterSubst
    ELSE IF call.by = "create"
        THEN /\ ont2wb' = ont2wb \cup {LinkRecord(call.node, id)}
             /\ AfterVisit
        ELSE /\ ont2wb' = ont2wb
             /\ AfterTriple

reply_ok ==
    /\ call.stage = "request"
    /\ remote' = IF call.wb_id = PyNone
                    THEN [remote EXCEPT ![KindLetter(call.item)] = @ + 1]
                    ELSE remote
    /\ events' = Append(events, ReplyEvent("ok", ReturnedId))
    /\ Returned(ReturnedId)
    /\ call' = Idle
    /\ UNCHANGED << g, loaded, link_file, wb_id, err, faults, run, hist >>

(* The first error reply to a call counts the call as faulty.              *)
MayFail ==
    call.collisions > 0 \/ faults < MaxFaults

FaultsAfter ==
    IF call.collisions > 0 THEN faults ELSE faults + 1

(* pat.search(ans['error']['info']): item_pat for an Item, prop_pat else.  *)
PatternMatches(item, ref) ==
    ref.c = KindLetter(item)

(***************************************************************************)
(* An error reply whose info contains ' already has ' and references the   *)
(* entity ref as [[Item:Qn]] or [[Property:Pn]] (lines 231-241): the       *)
(* entity is cleared with clear_thing, whose request is sent here.  The    *)
(* reply references the newest entity of a kind the instance holds.        *)
(***************************************************************************)
reply_collision ==
    /\ call.stage = "request"
    /\ MayFail
    /\ call.collisions < MaxCollisions
    /\ \E c \in {k \in {"Q", "P"} : remote[k] > 0} :
        LET ref == WbId(c, remote[c])
        IN  IF PatternMatches(call.item, ref)
               THEN /\ call' = [call EXCEPT !.stage = "clear", !.wb_id = ref,
                                              !.collisions = @ + 1]
                    /\ events' = events \o << ReplyEvent("collision", ref),
                                              ClearRequest(ref, call.by, call.node) >>
                    /\ UNCHANGED << pc, err >>
               ELSE /\ Abort("AttributeError")
                    /\ events' = Append(events, ReplyEvent("collision", ref))
    /\ faults' = FaultsAfter
    /\ UNCHANGED << g, loaded, link_file, remote, ont2wb, i, j, wb_id, run,
                    hist >>

(* Mutant of reply_error: the error reply is taken as a result.           *)
reply_error_ignored ==
    /\ call.stage = "request"
    /\ MayFail
    /\ events' = Append(events, ReplyEvent("error", PyNone))
    /\ Returned(StrNone)
    /\ call' = Idle
    /\ faults' = FaultsAfter
    /\ UNCHANGED << g, loaded, link_file, remote, wb_id, err, run, hist >>

(* Any other error reply: RuntimeError (lines 242-244).                    *)
reply_error ==
    /\ call.stage = "request"
    /\ MayFail
    /\ Abort("RuntimeError")
    /\ events' = Append(events, ReplyEvent("error", PyNone))
    /\ faults' = FaultsAfter
    /\ UNCHANGED << g, loaded, link_file, remote, ont2wb, i, j, wb_id, run,
                    hist >>

(* Mutant of clear_ok: the retry asks for a new entity again.              *)
clear_ok_untargeted ==
    /\ call.stage = "clear"
    /\ call' = [call EXCEPT !.stage = "request", !.wb_id = PyNone]
    /\ events' = events \o << ReplyEvent("ok", call.wb_id),
                              RawRequest(call.item, call.data, PyNone,
                                         call.by, call.node) >>
    /\ UNCHANGED << g, loaded, link_file, remote, ont2wb, pc, i, j, wb_id, err,
                    faults, run, hist >>

(* clear_thing returned: create_wb_thing_raw(item, data, wb_id) (line 241).*)
clear_ok ==
    /\ call.stage = "clear"
    /\ call' = [call EXCEPT !.stage = "request"]
    /\ events' = events \o << ReplyEvent("ok", call.wb_id),
                              RawRequest(call.item, call.data, call.wb_id,
                                         call.by, call.node) >>
    /\ UNCHANGED << g, loaded, link_file, remote, ont2wb, pc, i, j, wb_id, err,
                    faults, run, hist >>

(* clear_thing raised (lines 191-193).                                     *)
clear_error ==
    /\ call.stage = "clear"
    /\ MayFail
    /\ Abort("RuntimeError")
    /\ events' = Append(events, ReplyEvent("error", PyNone))
    /\ faults' = FaultsAfter
    /\ UNCHANGED << g, loaded, link_file, remote, ont2wb, i, j, wb_id, run,
                    hist >>

(***************************************************************************)
(* The tool is started again after a run that completed: the process state *)
(* is gone, the link-store file and the WikiBase instance stay.            *)
(***************************************************************************)
NumCreateEntity(evs) ==
    Cardinality({k \in 1..Len(evs) : IsCreateEntity(evs[k])})

RunSummary ==
    [no_file |-> events[1].kind = "no-file", outcome |-> pc,
     creates |-> NumCreateEntity(events)]

rerun ==
    /\ pc = "done"
    /\ run < MaxRuns
    /\ hist' = Append(hist, RunSummary)
    /\ run' = run + 1
    /\ pc' = "start"
    /\ ont2wb' = {}
    /\ loaded' = {}
    /\ i' = 1
    /\ j' = 0
    /\ wb_id' = PyNone
    /\ err' = ""
    /\ events' = <<>>
    /\ UNCHANGED << g, link_file, remote, call, faults >>

Next ==
    \/ Start
    \/ create_subst
    \/ create_pass_visit
    \/ save
    \/ claim_pass_visit
    \/ claim_pass_triple
    \/ finish
    \/ reply_ok
    \/ reply_collision
    \/ reply_error
    \/ clear_ok
    \/ clear_error
    \/ rerun

Spec ==
    Init /\ [][Next]_vars

TypeOK ==
    /\ pc \in {"start", "bootstrap", "create", "claims", "done"}
    /\ call.stage \in {"idle", "request", "clear"}
    /\ faults \in 0..MaxFaults
    /\ run \in 1..MaxRuns

(***************************************************************************)
(* Properties.                                                             *)
(***************************************************************************)
EventIndices ==
    1..Len(events)

LastEvent ==
    events[Len(events)]

(* C1: a run that follows a completed run which started without           *)
(* link-store file, and that loads the file this run wrote, issues no      *)
(* createEntity request: neither in the bootstrap step nor in the creation *)
(* pass.                                                                   *)
C1_SecondRunCreatesNothing ==
    (hist # <<>> /\ hist[1].no_file)
        => \A k \in EventIndices : ~IsCreateEntity(events[k])

C1_Witness ==
    /\ run = 2
    /\ pc = "done"
    /\ hist[1].no_file
    /\ hist[1].outcome = "done"
    /\ hist[1].creates > Len(SubstTable)
    /\ \E k \in EventIndices : IsClaimCall(events[k])

(* C2: a collision reply to the createEntity request for a new Item        *)
(* (Property) that references [[Item:Qn]] ([[Property:Pn]]) is followed by *)
(* clearEntity(Qn); when that is answered without error, by a createEntity *)
(* request with the same payload that targets Qn; and when that succeeds,  *)
(* Qn is the identifier returned and recorded for the node.                *)
CollisionOnNewEntity(k) ==
    /\ k > 1
    /\ events[k].ev = "reply"
    /\ events[k].kind = "collision"
    /\ IsCreateEntity(events[k - 1])
    /\ events[k - 1].new # ""
    /\ events[k].id.c = (IF events[k - 1].new = "item" THEN "Q" ELSE "P")

C2_CollisionRecovery ==
    \A k \in EventIndices : CollisionOnNewEntity(k) =>
        LET req == events[k - 1]
            ref == events[k].id
        IN  /\ Len(events) > k
            /\ IsClearEntity(events[k + 1])
            /\ events[k + 1].id = ref
            /\ (Len(events) >= k + 2 /\ events[k + 2].kind = "ok") =>
                    /\ Len(events) >= k + 3
                    /\ IsCreateEntity(events[k + 3])
                    /\ events[k + 3].new = ""
                    /\ events[k + 3].id = ref
                    /\ events[k + 3].data = req.data
            /\ (Len(events) >= k + 4 /\ events[k + 4].kind = "ok") =>
                    /\ events[k + 4].id = ref
                    /\ LinkRecord(req.node, ref) \in ont2wb

C2_Witness ==
    \E k \in EventIndices :
        /\ CollisionOnNewEntity(k)
        /\ events[k - 1].new = "item"
        /\ Len(events) >= k + 4
        /\ events[k + 4].kind = "ok"
        /\ LinkRecord(events[k - 1].node, events[k].id) \in ont2wb

(* C3: a collision reply to the retry that targets the conflicting         *)
(* identifier is fatal: the run ends with it, without a further            *)
(* clearEntity or createEntity.                                            *)
C3_SecondCollisionFatal ==
    \A k \in EventIndices :
        ( /\ k > 1
          /\ events[k].ev = "reply"
          /\ events[k].kind = "collision"
          /\ IsCreateEntity(events[k - 1])
          /\ events[k - 1].new = "" )
        => (err # "" /\ k = Len(events))

(* C4: every node the creation pass has dealt with, that is not skipped    *)
(* and had no identifier, was asked to be created as an Item when it       *)
(* declares the class type, as a Property when it declares a property type *)
(* and not the class type; with any other type set it ended the run at     *)
(* once, without a createEntity for it.                                    *)
SpecSkipped(node) ==
    node.t = "bnode" \/ node.s = BASE_URI \/ OWL_Ontology \in TypesOf(node)

SubstNodes ==
    {SubstTable[k].node : k \in 1..Len(SubstTable)}

UnresolvedAtFirstVisit(node) ==
    /\ ont2wb_objects(loaded, node) = {}
    /\ ~(events[1].kind = "no-file" /\ node \in SubstNodes)

CreationVisitOver(k) ==
    \/ pc \in {"claims", "done"}
    \/ pc = "create" /\ (i > k \/ (i = k /\ err # ""))

CreatedAs(node, new) ==
    \E k \in EventIndices :
        /\ IsCreateEntity(events[k])
        /\ events[k].by = "create"
        /\ events[k].node = node
        /\ events[k].new = new

C4_ClassificationTotality ==
    \A k \in 1..Len(graph) :
        LET subj  == graph[k].s
            types == TypesOf(subj)
            prop  == OWL_ObjectProperty \in types \/ OWL_DatatypeProperty \in types
        IN  ( /\ CreationVisitOver(k)
              /\ ~SpecSkipped(subj)
              /\ UnresolvedAtFirstVisit(subj) )
            => /\ OWL_Class \in types => CreatedAs(subj, "item")
               /\ (OWL_Class \notin types /\ prop) => CreatedAs(subj, "property")
               /\ (OWL_Class \notin types /\ ~prop) =>
                    /\ err = "SystemExit"
                    /\ i = k
                    /\ \A n \in EventIndices :
                          ~(IsCreateEntity(events[n]) /\ events[n].node = subj)

(* C5: for a node that is blank, or is the base URI, or declares the       *)
(* ontology type, a run issues no createEntity, adds no link record and    *)
(* issues no claim-creation call with it as subject.                       *)
C5_SkippedNodesUntouched ==
    \A k \in 1..Len(graph) :
        LET subj == graph[k].s
        IN  SpecSkipped(subj) =>
                /\ \A n \in EventIndices :
                      ~(IsCreateEntity(events[n]) /\ events[n].node = subj)
                /\ ont2wb_objects(ont2wb, subj) \subseteq ont2wb_objects(loaded, subj)
                /\ \A n \in EventIndices :
                      ~(IsClaimCall(events[n]) /\ events[n].node = subj)

(* C6: while the store holds more than one record for a subject, neither   *)
(* the creation pass nor the claim pass gets past the lookup of that       *)
(* subject: the lookup fails.                                              *)
C6_DuplicatesAreFatal ==
    \A k \in 1..Len(graph) :
        LET subj == graph[k].s
        IN  (~skip_subj(subj) /\ Cardinality(ont2wb_objects(ont2wb, subj)) > 1)
                => /\ ~(pc = "create" /\ i > k)
                   /\ pc \notin {"claims", "done"}

(* C7: in every run all createEntity requests precede the one save of the  *)
(* link store and the save precedes every claim-creation call; from the    *)
(* save on, the file read back holds every link record of the run.         *)
SaveIndices ==
    {k \in EventIndices : events[k].ev = "save"}

C7_PassOrderingAndPersistence ==
    LET saves == SaveIndices
    IN  /\ Cardinality(saves) <= 1
        /\ \A k \in EventIndices :
              IsCreateEntity(events[k]) => \A s \in saves : k < s
        /\ \A k \in EventIndices :
              IsClaimCall(events[k]) => \E s \in saves : s < k
        /\ saves # {} =>
              /\ link_file.exists
              /\ ont2wb \subseteq load(link_file.recs)

C7_Witness ==
    /\ pc = "done"
    /\ \E k \in EventIndices : IsCreateEntity(events[k]) /\ events[k].by = "bootstrap"
    /\ \E k \in EventIndices : IsCreateEntity(events[k]) /\ events[k].by = "create"
    /\ \E k \in EventIndices : IsClaimCall(events[k])
    /\ ont2wb # loaded

(* C8: when create_claim gets a predicate outside the non-claim set that   *)
(* has no link record, or an object of an item/property-typed claim that   *)
(* has none, it raises the resolution error, no request is sent for the    *)
(* triple, and the run processes nothing after it.                         *)
AtClaimTriple ==
    pc = "claims" /\ j >= 1 /\ call.stage = "idle" /\ err = ""

CurrentTriple ==
    graph_triples(graph[i].s)[j]

Unresolved(node) ==
    ont2wb_objects(ont2wb, node) = {}

ResolvesTo(node) ==
    CHOOSE id \in ont2wb_objects(ont2wb, node) : TRUE

ResolutionFails ==
    /\ AtClaimTriple
    /\ CurrentTriple.p \notin {RDFS_range, RDFS_domain}
    /\ ~InList(CurrentTriple.p, get_non_claim_preds)
    /\ \/ Unresolved(CurrentTriple.p)
       \/ /\ Cardinality(ont2wb_objects(ont2wb, CurrentTriple.p)) = 1
          /\ ResolvesTo(CurrentTriple.p) # WbId("P", ExcludedPropertyNum)
          /\ CurrentTriple.o.t # "lit"
          /\ Unresolved(CurrentTriple.o)

C8_ResolutionFailureIsFatal ==
    /\ [][ResolutionFails =>
            (err' = "RuntimeError" /\ events' = events /\ i' = i /\ j' = j)]_vars
    /\ [][err # "" => (events' = events /\ i' = i /\ j' = j /\ pc' = pc)]_vars

C8_Witness ==
    /\ pc = "claims"
    /\ j >= 1
    /\ err = "RuntimeError"
    /\ LastEvent.ev # "reply" \/ LastEvent.kind = "ok"
    /\ ~InList(CurrentTriple.p, get_non_claim_preds)
    /\ Unresolved(CurrentTriple.p)

(* C9: a claim emitted for a literal object has value-type and datatype    *)
(* 'url' exactly when the literal's text is a valid URL and 'string'       *)
(* otherwise, and its value is the literal's text.                         *)
C9_LiteralClaimTyping ==
    \A k \in EventIndices :
        (IsClaimCall(events[k]) /\ events[k].data.claims.entity_type = "") =>
            LET claim == events[k].data.claims
            IN  /\ claim.type = claim.datatype
                /\ claim.type = (IF validators_url(claim.text) THEN "url" ELSE "string")

(* C10: for a triple whose predicate is a label predicate, a description   *)
(* predicate, rdf:type or an OWL cardinality predicate, create_claim sends *)
(* no request and does not fail.                                           *)
NonClaimPredicates ==
    { RDFS_label, SKOS_prefLabel, DCTERMS_title, DC_title,
      RDFS_comment, SKOS_definition, DCTERMS_description, DC_description,
      RDF_type, OWL_cardinality, OWL_maxCardinality, OWL_minCardinality }

C10_NonClaimPredicates ==
    (pc = "claims" /\ j >= 1 /\ CurrentTriple.p \in NonClaimPredicates)
        => (err = "" /\ call.stage = "idle")

(* C11: the label map and the description map handed to createEntity for   *)
(* a node have exactly one entry per language occurring among the node's   *)
(* label (description) literals, an untagged literal counting as 'en';     *)
(* each entry is the texts of that language joined by two newlines in scan *)
(* order.  The label and description predicates are the prioritized lists  *)
(* of the specification.                                                   *)
LabelPredicates ==
    << RDFS_label, SKOS_prefLabel, DCTERMS_title, DC_title >>

DescriptionPredicates ==
    << RDFS_comment, SKOS_definition, DCTERMS_description, DC_description >>

LangOf(lit) ==
    IF lit.lang = "" THEN "en" ELSE lit.lang

RECURSIVE JoinTexts(_)
JoinTexts(lits) ==
    IF lits = <<>>
        THEN <<>>
        ELSE IF Len(lits) = 1
            THEN lits[1].s
            ELSE lits[1].s \o <<"\n", "\n">> \o JoinTexts(Tail(lits))

ExpectedMap(node, preds) ==
    LET lits  == ObjectsOfPreds(node, preds)
        langs == {LangOf(lits[k]) : k \in 1..Len(lits)}
    IN  [l \in langs |->
            LET InLang(lit) == LangOf(lit) = l
            IN  JoinTexts(SelectSeq(lits, InLang))]

C11_LabelAggregation ==
    \A k \in EventIndices :
        (IsCreateEntity(events[k]) /\ events[k].by = "create") =>
            LET d    == events[k].data
                lbs  == ExpectedMap(events[k].node, LabelPredicates)
                dscs == ExpectedMap(events[k].node, DescriptionPredicates)
            IN  /\ [l \in DOMAIN d.labels |-> d.labels[l].value] = lbs
                /\ DOMAIN d.descriptions = DOMAIN dscs
                /\ \A l \in DOMAIN dscs :
                      Len(dscs[l]) <= DescMaxLen
                          => d.descriptions[l].value = dscs[l]

(* C12: every description value of a createEntity request is the           *)
(* description text handed over, unchanged when its length is at most 250, *)
(* and its first 247 characters followed by '...' when it is longer; so no *)
(* value sent is longer than 250 characters.                               *)
C12_DescriptionTruncation ==
    \A k \in EventIndices :
        (IsCreateEntity(events[k]) /\ events[k].by = "create") =>
            \A l \in DOMAIN events[k].data.descriptions :
                LET text  == AggregateDescriptions(events[k].node)[l]
                    value == events[k].data.descriptions[l].value
                IN  /\ Len(text) <= 250 => value = text
                    /\ Len(text) > 250 =>
                          value = SubSeq(text, 1, 247) \o <<".", ".", ".">>
                    /\ Len(value) <= 250

C12_Witness ==
    /\ \E k \in EventIndices :
          /\ IsCreateEntity(events[k])
          /\ "en" \in DOMAIN events[k].data.descriptions
          /\ Len(AggregateDescriptions(events[k].node)["en"]) = 260
          /\ Len(events[k].data.descriptions["en"].value) = 250
    /\ \E k \in EventIndices :
          /\ IsCreateEntity(events[k])
          /\ "en" \in DOMAIN events[k].data.descriptions
          /\ Len(AggregateDescriptions(events[k].node)["en"]) = 250
          /\ events[k].data.descriptions["en"].value
                = AggregateDescriptions(events[k].node)["en"]
    /\ \E k \in EventIndices :
          /\ IsCreateEntity(events[k])
          /\ "en" \in DOMAIN events[k].data.descriptions
          /\ Len(AggregateDescriptions(events[k].node)["en"]) = 251

(* C13: in a run that found no link-store file, once the creation pass has *)
(* begun every entry of the bootstrap table has had exactly one            *)
(* createEntity invocation (the request for a new entity; the retry after  *)
(* a collision belongs to it): a Property with the entry's value datatype, *)
(* string and url unchanged, item and property prefixed 'wikibase-', or an *)
(* Item for the individual entry; the invocation precedes every            *)
(* createEntity of the creation pass and the entry has exactly one link    *)
(* record.                                                                 *)
IsNewEntityRequest(e) ==
    IsCreateEntity(e) /\ e.new # ""

ExpectedDatatype(entry) ==
    IF entry.item THEN ""
    ELSE IF entry.obj_type \in {"string", "url"} THEN entry.obj_type
    ELSE IF entry.obj_type = "item" THEN "wikibase-item"
    ELSE "wikibase-property"

C13_BootstrapOnFirstRun ==
    (pc \in {"create", "claims", "done"} /\ events[1].kind = "no-file") =>
        LET news  == {k \in EventIndices : IsNewEntityRequest(events[k])}
            first == {m \in news : events[m].by = "create"}
        IN  \A n \in 1..Len(SubstTable) :
                LET entry == SubstTable[n]
                    reqs  == {k \in news : events[k].node = entry.node}
                IN  /\ Cardinality(reqs) = 1
                    /\ \A k \in reqs :
                          /\ events[k].by = "bootstrap"
                          /\ events[k].new
                                = (IF entry.item THEN "item" ELSE "property")
                          /\ events[k].data.datatype = ExpectedDatatype(entry)
                          /\ DOMAIN events[k].data.labels = {"en"}
                          /\ events[k].data.labels["en"].value = entry.label
                          /\ \A m \in first : k < m
                    /\ Cardinality(ont2wb_objects(ont2wb, entry.node)) = 1

C13_Witness ==
    /\ pc = "claims"
    /\ events[1].kind = "no-file"
    /\ \E k \in EventIndices : IsCreateEntity(events[k]) /\ events[k].by = "create"
    /\ \E n \in 1..Len(SubstTable) : \E k \in 1..Len(graph) :
          graph[k].s = SubstTable[n].node

(* C14: in a completed run, for every triple of a non-skipped subject     *)
(* whose predicate is outside the non-claim set and resolves to a          *)
(* non-excluded property identifier and whose object types successfully,   *)
(* exactly one claim-creation call was issued (the retry that follows a    *)
(* collision belongs to the call it retries).                              *)
IsRetryRequest(n) ==
    n > 2 /\ events[n - 1].ev = "reply" /\ IsClearEntity(events[n - 2])

ResolvesUniquely(node) ==
    Cardinality(ont2wb_objects(ont2wb, node)) = 1

TypesSuccessfully(obj) ==
    obj.t = "lit" \/ (ResolvesUniquely(obj) /\ ResolvesTo(obj).n >= 0)

ClaimIsFor(claim, obj) ==
    IF obj.t = "lit"
        THEN claim.entity_type = "" /\ claim.text = obj.s
        ELSE claim.entity_type # "" /\ claim.id = ResolvesTo(obj)

ClaimCallsFor(tr) ==
    {n \in EventIndices :
        /\ IsClaimCall(events[n])
        /\ ~IsRetryRequest(n)
        /\ events[n].node = tr.s
        /\ events[n].data.claims.property = ResolvesTo(tr.p)
        /\ ClaimIsFor(events[n].data.claims, tr.o)}

C14_OneClaimCallPerTriple ==
    pc = "done" =>
        \A k \in 1..Len(graph) :
            LET tr == graph[k]
            IN  ( /\ ~SpecSkipped(tr.s)
                  /\ tr.p \notin NonClaimPredicates \cup {RDFS_range, RDFS_domain}
                  /\ ResolvesUniquely(tr.p)
                  /\ ResolvesTo(tr.p) # WbId("P", 1647)
                  /\ TypesSuccessfully(tr.o) )
                => Cardinality(ClaimCallsFor(tr)) = 1

(* C15: an error reply to a createEntity request that is no naming         *)
(* collision ends the run with the error: no request follows it (neither   *)
(* clearEntity nor a retry), the node gets no link record, and the link    *)
(* store is not saved.                                                     *)
ErrorOnCreateEntity(k) ==
    /\ k > 1
    /\ events[k].ev = "reply"
    /\ events[k].kind = "error"
    /\ IsCreateEntity(events[k - 1])

C15_RemoteErrorIsFatal ==
    \A k \in EventIndices : ErrorOnCreateEntity(k) =>
        /\ k = Len(events)
        /\ err = "RuntimeError"
        /\ call.stage = "idle"
        /\ ont2wb_objects(ont2wb, events[k - 1].node) = {}
        /\ SaveIndices = {}
        /\ link_file.exists = (events[1].kind = "file")
        /\ link_file.exists => load(link_file.recs) = loaded

C15_Witness ==
    \E k \in EventIndices :
        /\ ErrorOnCreateEntity(k)
        /\ events[k - 1].by = "create"
        /\ ont2wb # loaded
        /\ err = "RuntimeError"

(* C16: within a run link records are only added: every record that was   *)
(* loaded or added stays in the store with its identifier, and the file    *)
(* saved after the creation pass holds every loaded record.                *)
C16_LinkRecordsNeverMutated ==
    /\ [][pc' # "start" => ont2wb \subseteq ont2wb']_vars
    /\ [](pc # "start" => loaded \subseteq ont2wb)
    /\ [](SaveIndices # {} => loaded \subseteq load(link_file.recs))

C16_Witness ==
    /\ pc = "done"
    /\ loaded # {}
    /\ ont2wb # loaded
    /\ SaveIndices # {}
    /\ loaded \subseteq load(link_file.recs)

(* C17: a non-skipped subject that has a link record when the creation     *)
(* pass first visits it gets no createEntity invocation and no record; one *)
(* that has none gets at most one invocation, and exactly one invocation   *)
(* and one record once the pass is over, however many triples it owns.  So *)
(* after the pass every non-skipped subject has exactly one record when    *)
(* the loaded store held at most one per node.                             *)
CreationsOf(subj) ==
    {n \in EventIndices :
        /\ IsNewEntityRequest(events[n])
        /\ events[n].by = "create"
        /\ events[n].node = subj}

CreationPassOver ==
    pc \in {"claims", "done"}

C17_OneCreationPerNode ==
    pc # "start" =>
        LET single == Cardinality({r.node : r \in loaded}) = Cardinality(loaded)
        IN  \A subj \in {graph[k].s : k \in 1..Len(graph)} :
                LET recs    == ont2wb_objects(ont2wb, subj)
                    before  == ont2wb_objects(loaded, subj)
                    news    == CreationsOf(subj)
                    missing == UnresolvedAtFirstVisit(subj)
                IN  ~SpecSkipped(subj) =>
                      /\ Cardinality(news) <= 1
                      /\ ~missing =>
                            /\ news = {}
                            /\ before # {} => recs = before
                            /\ Cardinality(recs) <= Max({1, Cardinality(before)})
                      /\ (missing /\ CreationPassOver) =>
                            /\ Cardinality(news) = 1
                            /\ Cardinality(recs) = 1
                      /\ (CreationPassOver /\ single) => Cardinality(recs) = 1

C17_Witness ==
    /\ pc = "done"
    /\ \E k \in 1..Len(graph) :
          /\ Len(graph_triples(graph[k].s)) >= 2
          /\ UnresolvedAtFirstVisit(graph[k].s)
          /\ Cardinality(CreationsOf(graph[k].s)) = 1
    /\ \E k \in 1..Len(graph) :
          /\ ~UnresolvedAtFirstVisit(graph[k].s)
          /\ CreationsOf(graph[k].s) = {}

(* C18: a claim emitted for an object that is no literal is item-typed     *)
(* when the object declares the class type, property-typed when it         *)
(* declares a property type and not the class type, and otherwise          *)
(* item-typed exactly when the final path/fragment segment of the          *)
(* object's URI starts with an uppercase letter (property-typed when the   *)
(* segment is empty).                                                      *)
FinalSegment(uri) ==
    LET seps == {k \in 1..Len(uri) : uri[k] \in {"#", "/"}}
    IN  IF seps = {} THEN uri ELSE SubSeq(uri, Max(seps) + 1, Len(uri))

SpecValueType(obj) ==
    LET types == TypesOf(obj)
        seg   == FinalSegment(obj.s)
    IN  IF OWL_Class \in types
            THEN "item"
            ELSE IF OWL_ObjectProperty \in types \/ OWL_DatatypeProperty \in types
                THEN "property"
                ELSE IF seg # <<>> /\ seg[1] \in UpperChars
                    THEN "item"
                    ELSE "property"

ClaimCallPending ==
    pc = "claims" /\ j >= 1 /\ call.stage = "request" /\ call.by = "claims"

C18_NodeReferenceTyping ==
    (ClaimCallPending /\ CurrentTriple.o.t # "lit") =>
        call.data.claims.entity_type = SpecValueType(CurrentTriple.o)

(* C19: a claim-creation call with an item/property-typed claim carries    *)
(* the value {entity-type, id, numeric-id} where id is the one identifier  *)
(* the link store records for the triple's object, numeric-id the number   *)
(* after its first character, entity-type 'item' or 'property' as the      *)
(* object was typed; the datatype is 'wikibase-item' or                    *)
(* 'wikibase-property' accordingly and the property field is the one       *)
(* identifier the store records for the predicate.                         *)
C19_ReferenceClaimsEmbedStoreIds ==
    (ClaimCallPending /\ call.data.claims.entity_type # "") =>
        LET claim == call.data.claims
            tr    == CurrentTriple
        IN  /\ IsClaimCall(LastEvent)
            /\ LastEvent.data.claims = claim
            /\ tr.o.t # "lit"
            /\ ont2wb_objects(ont2wb, tr.o) = {claim.id}
            /\ claim.numeric_id = claim.id.n
            /\ claim.numeric_id >= 0
            /\ claim.entity_type \in {"item", "property"}
            /\ claim.entity_type = ValueTypeOf(tr.o)
            /\ claim.datatype = (IF claim.entity_type = "item"
                                    THEN "wikibase-item" ELSE "wikibase-property")
            /\ claim.type = "wikibase-entityid"
            /\ ont2wb_objects(ont2wb, tr.p) = {claim.property}

C19_Witness ==
    /\ pc = "done"
    /\ \E k \in EventIndices :
          /\ IsClaimCall(events[k])
          /\ events[k].data.claims.entity_type = "item"
          /\ events[k].data.claims.id.c = "Q"
    /\ \E k \in EventIndices :
          /\ IsClaimCall(events[k])
          /\ events[k].data.claims.entity_type = "property"
          /\ events[k].data.claims.id.c = "P"

(* C20: when create_claim gets a predicate outside the non-claim set that  *)
(* the link store resolves to P1647, it sends no request and raises        *)
(* nothing: the run goes on with the next triple.  A predicate without     *)
(* link record fails, the exclusion being tested after the resolution.     *)
AtClaimPredicate ==
    /\ AtClaimTriple
    /\ CurrentTriple.p \notin NonClaimPredicates \cup {RDFS_range, RDFS_domain}

C20_ExcludedProperty ==
    /\ [][(AtClaimPredicate
            /\ ont2wb_objects(ont2wb, CurrentTriple.p) = {WbId("P", 1647)})
          => /\ events' = events
             /\ err' = ""
             /\ call' = Idle
             /\ pc' = "claims"
             /\ << i', j' >> # << i, j >>]_vars
    /\ [][(AtClaimPredicate /\ Unresolved(CurrentTriple.p))
          => (err' = "RuntimeError" /\ events' = events)]_vars

C20_Witness ==
    /\ pc = "done"
    /\ \E k \in 1..Len(graph) :
          /\ ~skip_subj(graph[k].s)
          /\ graph[k].p \notin NonClaimPredicates \cup {RDFS_range, RDFS_domain}
          /\ ont2wb_objects(ont2wb, graph[k].p) = {WbId("P", 1647)}
    /\ \A n \in EventIndices :
          IsClaimCall(events[n])
              => events[n].data.claims.property # WbId("P", 1647)
    /\ \E n \in EventIndices : IsClaimCall(events[n])

(* C21: when a node carries label (description) literals under several     *)
(* predicates of the prioritized list, the text of every one of them is    *)
(* part of the entry of its language in the label (description) map handed *)
(* to createEntity, not only the texts of the first predicate.             *)
Contains(text, part) ==
    \E a \in 0..(Len(text) - Len(part)) :
        SubSeq(text, a + 1, a + Len(part)) = part

CollectedIn(map, lits) ==
    \A n \in 1..Len(lits) :
        /\ LangOf(lits[n]) \in DOMAIN map
        /\ Contains(map[LangOf(lits[n])].value, lits[n].s)

SeveralPredicates(node, preds) ==
    Cardinality({n \in 1..Len(preds) : graph_objects(node, preds[n]) # <<>>}) >= 2

C21_MultiPredicateAggregation ==
    \A k \in EventIndices :
        (IsCreateEntity(events[k]) /\ events[k].by = "create") =>
            LET node == events[k].node
            IN  /\ SeveralPredicates(node, LabelPredicates) =>
                      CollectedIn(events[k].data.labels,
                                  ObjectsOfPreds(node, LabelPredicates))
                /\ SeveralPredicates(node, DescriptionPredicates) =>
                      CollectedIn(events[k].data.descriptions,
                                  ObjectsOfPreds(node, DescriptionPredicates))

(* C22: in the claim pass no clearEntity is issued, every claim-creation   *)
(* request is addressed to an identifier the link store records for its    *)
(* subject, and an error reply of any kind to a claim-creation request     *)
(* ends the run there.                                                     *)
C22_ClaimPassAppendOnly ==
    \A k \in EventIndices :
        /\ IsClearEntity(events[k]) => events[k].by # "claims"
        /\ IsClaimCall(events[k]) =>
              events[k].id \in ont2wb_objects(ont2wb, events[k].node)
        /\ ( /\ k > 1
             /\ events[k].ev = "reply"
             /\ events[k].kind \in {"error", "collision"}
             /\ IsClaimCall(events[k - 1]) )
           => (err # "" /\ k = Len(events))

(* C23: in a run that starts from an empty or injective link store no two  *)
(* distinct nodes are recorded with the same target identifier, and no     *)
(* clearEntity issued while an entity is created addresses an identifier   *)
(* that is recorded for another node.                                      *)
TargetRecords(store) ==
    {r \in store : r.id.c \in {"Q", "P"}}

Injective(store) ==
    \A r1, r2 \in TargetRecords(store) : r1.id = r2.id => r1.node = r2.node

C23_InjectiveMapping ==
    (pc # "start" /\ Injective(loaded)) =>
        /\ Injective(ont2wb)
        /\ \A k \in EventIndices :
              (IsClearEntity(events[k]) /\ events[k].by \in {"bootstrap", "create"})
                  => \A r \in ont2wb :
                        r.id = events[k].id => r.node = events[k].node

(* C24: for every node the creation pass has to create (not skipped, no    *)
(* link record, typed as class or property), whatever languages its labels *)
(* and descriptions have, a creation request is sent whose payload holds   *)
(* one label entry per label language and one description entry per        *)
(* description language; nothing fails before the request is sent.         *)
C24_AnyLabelAndDescriptionMap ==
    \A k \in 1..Len(graph) :
        LET subj == graph[k].s
        IN  ( /\ pc # "start"
              /\ CreationVisitOver(k)
              /\ ~skip_subj(subj)
              /\ UnresolvedAtFirstVisit(subj)
              /\ ClassifySubject(subj) \in {"item", "property"} )
            => \E n \in EventIndices :
                  /\ IsNewEntityRequest(events[n])
                  /\ events[n].node = subj
                  /\ DOMAIN events[n].data.labels = DOMAIN AggregateLabels(subj)
                  /\ DOMAIN events[n].data.descriptions
                        = DOMAIN AggregateDescriptions(subj)
                  /\ \A l \in DOMAIN events[n].data.labels :
                        events[n].data.labels[l].language = l
                  /\ \A l \in DOMAIN events[n].data.descriptions :
                        events[n].data.descriptions[l].language = l
====
